---- MODULE Spec2Model ----
(***************************************************************************)
(* The conversation loop of UniversitySupportBlueprint.execute             *)
(* (blueprints/university/blueprint_university.py): environment            *)
(* validation, database setup, user input, the lookup of the TriageAgent   *)
(* and the while loop that runs the Swarm client turn by turn.             *)
(*                                                                         *)
(* Strings that the code builds are modelled by what builds them:          *)
(*   <<"str", s>>          a plain text                                    *)
(*   <<"null">>            Python None (a message whose content is null)   *)
(*   <<"json", c, ctx>>    json.dumps({"content": c,                       *)
(*                                     "context_variables": ctx})          *)
(* so that a wrapped text differs from the text it wraps.                  *)
(***************************************************************************)
EXTENDS Naturals, Sequences, FiniteSets, TLC

VARIABLES
    pc,                 \* position in execute() or interactive_mode()
    sqlite_db_path,     \* os.getenv("SQLITE_DB_PATH")
    db_exists,          \* os.path.isfile(sqlite_db_path)
    agents,             \* self.swarm.agents: names of the agents created
    user_query,         \* what input() returned
    messages,           \* the transcript
    context_variables,  \* the session context
    active_agent,       \* the agent the next turn runs
    result,             \* what execute() returned
    calls,              \* history: the agent of every self.client.run(...) so far
    first,              \* history: the arguments of the first self.client.run(...)
    last,               \* history: summary of the last completed turn
    handler             \* the last function or loop step applied on its own

vars == <<pc, sqlite_db_path, db_exists, agents, user_query, messages,
          context_variables, active_agent, result, calls, first, last, handler>>

----------------------------------------------------------------------------
(* Bounds of the model *)

MaxTurns == 2
MaxTools == 2
MaxMessages == 3
MaxItems == 3

----------------------------------------------------------------------------
(* Names *)

None == "None"

TriageAgent == "TriageAgent"
CourseAdvisor == "CourseAdvisor"
UniversityPoet == "UniversityPoet"
SchedulingAssistant == "SchedulingAssistant"

AgentNames == {TriageAgent, CourseAdvisor, UniversityPoet, SchedulingAssistant}
Specialists == AgentNames \ {TriageAgent}

RouteTools == {"_triage_to_course_advisor", "_triage_to_university_poet",
               "_triage_to_scheduling_assistant"}
FinaliseTools == {"_course_advisor_finalise", "_university_poet_finalise",
                  "_scheduling_assistant_finalise"}
ToolNames == RouteTools \cup FinaliseTools

\* The specialist a route tool's name encodes.
RouteTarget(tool) ==
    CASE tool = "_triage_to_course_advisor" -> CourseAdvisor
      [] tool = "_triage_to_university_poet" -> UniversityPoet
      [] tool = "_triage_to_scheduling_assistant" -> SchedulingAssistant
      [] OTHER -> None

----------------------------------------------------------------------------
(* Context: a mapping from some of the keys to values *)

Keys == {"response_haiku"}
Vals == {"true", "false"}

EmptyContext == [k \in {} |-> "true"]

\* context_variables.get(k)
Get(ctx, k) == IF k \in DOMAIN ctx THEN ctx[k] ELSE None

\* dict(ctx); dict.update(w)
Merge(ctx, w) ==
    [k \in (DOMAIN ctx) \cup (DOMAIN w) |-> IF k \in DOMAIN w THEN w[k] ELSE ctx[k]]

----------------------------------------------------------------------------
(* Text *)

Str(s) == <<"str", s>>
NullContent == <<"null">>
JsonDumps(c, ctx) == <<"json", c, ctx>>

CanonicalClosing ==
    "Thank you for using the University Support System. If you have more questions, feel free to reach out!"

\* The text of _university_poet_haiku: three lines, each after a newline and
\* twelve spaces, and a last newline followed by twelve spaces.
Haiku ==
    "\n            A student asks why,\n            Campus calls with ancient tales,\n            Wisdom finds its way.\n            "

\* The texts of the model that hold the sentence
\* "Thank you for using the University Support System".
SentinelTexts == {CanonicalClosing}

\* "Thank you for using the University Support System" in content, for a
\* content that is a string; json.dumps keeps the sentence intact.
RECURSIVE HasSentinel(_)
HasSentinel(c) ==
    CASE c[1] = "str" -> c[2] \in SentinelTexts
      [] c[1] = "json" -> HasSentinel(c[2])
      [] OTHER -> FALSE

----------------------------------------------------------------------------
(* The agents' tool functions (blueprint_university.py, sections 1 and 2) *)

\* self.swarm.agents.get(name)
AgentsGet(name) == IF name \in agents THEN name ELSE None

finalise_response(ctx) == JsonDumps(Str(CanonicalClosing), ctx)

\* Mutant: the course-advisor route hands off to the poet.
triage_to_course_advisor_poet(ctx) == AgentsGet(UniversityPoet)

triage_to_course_advisor(ctx) == AgentsGet(CourseAdvisor)
triage_to_university_poet(ctx) == AgentsGet(UniversityPoet)
triage_to_scheduling_assistant(ctx) == AgentsGet(SchedulingAssistant)

course_advisor_finalise(ctx) == JsonDumps(finalise_response(ctx), ctx)

university_poet_haiku == Str(Haiku)

\* Mutant: the poet marks the haiku as delivered in the context it returns.
university_poet_finalise_marked(ctx) ==
    IF Get(ctx, "response_haiku") = "true"
    THEN JsonDumps(university_poet_haiku, Merge(ctx, [k \in {"response_haiku"} |-> "false"]))
    ELSE JsonDumps(finalise_response(ctx), ctx)

university_poet_finalise(ctx) ==
    IF Get(ctx, "response_haiku") = "true"
    THEN JsonDumps(university_poet_haiku, ctx)
    ELSE JsonDumps(finalise_response(ctx), ctx)

scheduling_assistant_finalise(ctx) == JsonDumps(finalise_response(ctx), ctx)

\* create_agents: the functions each agent is created with.
Functions(agent) ==
    CASE agent = TriageAgent -> RouteTools
      [] agent = CourseAdvisor -> {"_course_advisor_finalise"}
      [] agent = UniversityPoet -> {"_university_poet_finalise"}
      [] agent = SchedulingAssistant -> {"_scheduling_assistant_finalise"}
      [] OTHER -> {}

\* Mutant: every agent is created with the sqlite server.
McpServers_all(agent) == {"sqlite"}

\* create_agents: mcp_servers=["sqlite"] if agent_name in
\* ["CourseAdvisor", "SchedulingAssistant"] else []
McpServers(agent) ==
    IF agent \in {CourseAdvisor, SchedulingAssistant} THEN {"sqlite"} ELSE {}

\* The data-query tool of the sqlite server that the instructions name.
DataTools == {"read_query"}

\* What a route tool returns: an agent of the registry, or None.
CallRoute(tool, ctx) ==
    CASE tool = "_triage_to_course_advisor" -> triage_to_course_advisor(ctx)
      [] tool = "_triage_to_university_poet" -> triage_to_university_poet(ctx)
      [] tool = "_triage_to_scheduling_assistant" -> triage_to_scheduling_assistant(ctx)
      [] OTHER -> None

\* What a finalise tool returns: a JSON text.
CallFinalise(tool, ctx) ==
    CASE tool = "_course_advisor_finalise" -> course_advisor_finalise(ctx)
      [] tool = "_university_poet_finalise" -> university_poet_finalise(ctx)
      [] tool = "_scheduling_assistant_finalise" -> scheduling_assistant_finalise(ctx)
      [] OTHER -> NullContent

\* The closing message a finalise call is meant to deliver: the haiku when
\* the poet is asked for one, the canonical closing message otherwise.
ClosingMessage(tool, ctx) ==
    IF tool = "_university_poet_finalise" /\ Get(ctx, "response_haiku") = "true"
    THEN Str(Haiku)
    ELSE Str(CanonicalClosing)

----------------------------------------------------------------------------
(* The external executor, self.client.run(agent, messages, context):       *)
(* it lets the agent say something, resolves the tools the agent issues    *)
(* in the order issued and reports the messages produced, the agent to     *)
(* run next and the context.                                               *)

\* One item of response.messages.
Item(isdict, has, role, content) ==
    [isdict |-> isdict, has_content |-> has, role |-> role, content |-> content]
Msg(role, content) == Item(TRUE, TRUE, role, content)

\* What the agent may say before its tool calls.
AssistantItems ==
    { Msg("assistant", Str(CanonicalClosing)),
      Msg("assistant", NullContent) }

\* The transition a tool invocation resolves to. named is the specialist
\* a dispatcher's route tool names, closing the closing message a finalise
\* call is meant to deliver.
Transition(kind, target, payload, named, closing) ==
    [kind |-> kind, target |-> target, payload |-> payload,
     named |-> named, closing |-> closing]

Resolve(agent, tool, ctx) ==
    IF tool \notin Functions(agent)
    THEN Transition("Rejected", None, Str("UnauthorizedToolError"),
                    IF agent = TriageAgent THEN RouteTarget(tool) ELSE None,
                    NullContent)
    ELSE IF tool \in RouteTools
    THEN Transition(IF CallRoute(tool, ctx) = None THEN "NoTarget" ELSE "ContinueWith",
                    CallRoute(tool, ctx), NullContent,
                    IF agent = TriageAgent THEN RouteTarget(tool) ELSE None,
                    NullContent)
    ELSE Transition("Terminate", None, CallFinalise(tool, ctx), None,
                    ClosingMessage(tool, ctx))

\* The tool gateway: a data query is forwarded to the storage only when the
\* caller's declared servers include sqlite; the storage answers with rows
\* or cannot be reached.
Gateway(agent, tool, reachable) ==
    IF "sqlite" \notin McpServers(agent)
    THEN Transition("ScopeViolation", None, Str("ScopeViolationError"), None, NullContent)
    ELSE IF reachable
    THEN Transition("Rows", None, Str("rows"), None, NullContent)
    ELSE Transition("StorageUnavailable", None, Str("StorageUnavailableError"),
                    None, NullContent)

\* The kinds of transition that fail and leave the agent where it is.
Refusals == {"Rejected", "ScopeViolation"}

\* The kinds of transition that leave a message in the response.
Recorded == {"Terminate", "Rows", "StorageUnavailable"} \cup Refusals

\* The transitions one turn of the agent may resolve to, in the order issued.
TransitionSeqs(agent, ctx) ==
    LET one == {Resolve(agent, tool, ctx) : tool \in ToolNames}
    IN UNION {[1..n -> one] : n \in 0..MaxTools}

\* What one data query of the agent may resolve to.
QueryOutcomes(agent) ==
    {Gateway(agent, tool, reachable) : tool \in DataTools, reachable \in BOOLEAN}

\* The messages the tool results leave: a finalise payload, rows, or the
\* error a failed invocation ended with.
RECURSIVE ToolMessages(_)
ToolMessages(trs) ==
    IF trs = <<>> THEN <<>>
    ELSE (IF Head(trs).kind \in Recorded
          THEN <<Msg("tool", Head(trs).payload)>>
          ELSE <<>>) \o ToolMessages(Tail(trs))

\* The last transition of the given kind, or a transition of kind "none".
RECURSIVE LastOfKind(_, _)
LastOfKind(trs, kind) ==
    IF trs = <<>> THEN Transition("none", None, NullContent, None, NullContent)
    ELSE IF trs[Len(trs)].kind = kind THEN trs[Len(trs)]
    ELSE LastOfKind(SubSeq(trs, 1, Len(trs) - 1), kind)

\* The target of the last ContinueWith of the turn, or None.
LastContinue(trs) == LastOfKind(trs, "ContinueWith").target

HasKind(trs, kind) == \E i \in 1..Len(trs) : trs[i].kind = kind

\* What the executor reports of the context: nothing, or the context it was
\* given updated with the keys written during the turn (one at most here).
Writes == {EmptyContext} \cup UNION {[{k} -> Vals] : k \in Keys}
ContextReports ==
    {[keep |-> FALSE, w |-> EmptyContext]} \cup {[keep |-> TRUE, w |-> w] : w \in Writes}

\* What the agent may say in one turn: nothing, or one item.
Sayings == {<<>>} \cup {<<m>> : m \in AssistantItems}

\* What the executor may report as the agent to run next when no tool of
\* the turn hands off: nobody, or the agent that ran.
Hints(agent, trs) ==
    IF LastContinue(trs) # None THEN {None} ELSE {None, agent}

\* The response of one run: said are the agent's own items, trs what its
\* tool invocations resolved to, hint what the executor reports when no tool
\* hands off, rep its report of the context.
Response(ctx, said, trs, hint, rep) ==
    [ messages |-> said \o ToolMessages(trs),
      agent |-> IF LastContinue(trs) # None THEN LastContinue(trs) ELSE hint,
      has_context |-> rep.keep,
      context_variables |-> IF rep.keep THEN Merge(ctx, rep.w) ELSE EmptyContext,
      \* what happened in the turn (not read by the driver)
      terminate |-> HasKind(trs, "Terminate"),
      closing |-> LastOfKind(trs, "Terminate").closing,
      continue |-> LastContinue(trs),
      routes |-> {trs[i].named : i \in 1..Len(trs)} \ {None},
      outcomes |-> {trs[i].kind : i \in 1..Len(trs)} \ {"Terminate", "ContinueWith"},
      written |-> rep.w ]

\* What the executor may raise.
ExecutorErrors == {"APIConnectionError", "RateLimitError"}

\* What self.client.run may raise that is no Exception: the user's Ctrl-C,
\* a request to exit, the cancellation of the task.
Interruptions == {"KeyboardInterrupt", "SystemExit", "CancelledError"}

----------------------------------------------------------------------------
(* execute(): what it returns *)

NoResult ==
    [status |-> "none", error |-> <<>>, has_messages |-> FALSE, messages |-> <<>>,
     has_context |-> FALSE]

Failure(error) ==
    [status |-> "failure", error |-> error, has_messages |-> FALSE, messages |-> <<>>,
     has_context |-> FALSE]

\* {"status": "success", "messages": messages, "metadata": self.metadata}
Success(msgs) ==
    [status |-> "success", error |-> <<>>, has_messages |-> TRUE, messages |-> msgs,
     has_context |-> FALSE]

\* Mutant: only an unset SQLITE_DB_PATH is refused.
EnvMissing_unset == sqlite_db_path = None

\* validate_env_vars raises when SQLITE_DB_PATH is unset or empty.
EnvMissing == sqlite_db_path \in {None, ""}
EnvError == <<"SQLITE_DB_PATH environment variable is required.">>

InputError == <<"Failed to receive user input.">>
NoTriageError == <<"TriageAgent not found.">>

\* f"Error during interaction: {e}"
RunError(e) == <<"Error during interaction: ", e>>

\* Mutant: the loop starts with a specialist.
StartingAgent_specialist == AgentsGet(CourseAdvisor)

\* starting_agent = self.swarm.agents.get("TriageAgent")
StartingAgent == AgentsGet(TriageAgent)

\* messages = [{"role": "user", "content": user_query}]
InitialMessages(q) == <<Msg("user", Str(q))>>

\* Mutant: every dict is appended, with or without a 'content' key.
Appended_dicts(resp) == SelectSeq(resp.messages, LAMBDA m : m.isdict)

\* The items of response.messages that the loop appends.
Appended(resp) == SelectSeq(resp.messages, LAMBDA m : m.isdict /\ m.has_content)

\* Mutant: the new items are put in front of the transcript.
Extended_prepend(msgs, resp) == Appended(resp) \o msgs

\* for message in response.messages: ... messages.append(message)
Extended(msgs, resp) == msgs \o Appended(resp)

\* Mutant: the loop keeps the agent it has.
NextAgent_stay(resp) == active_agent

\* active_agent = response.agent
NextAgent(resp) == resp.agent

\* Mutant: the reported context is adopted even when it is empty.
NextContext_always(resp) == resp.context_variables

\* Mutant: a run that returns no context clears the session context.
NextContext_reset(resp) ==
    IF resp.has_context /\ DOMAIN resp.context_variables # {}
    THEN resp.context_variables
    ELSE EmptyContext

\* if response.context_variables: context_variables = response.context_variables
NextContext(resp) ==
    IF resp.has_context /\ DOMAIN resp.context_variables # {}
    THEN resp.context_variables
    ELSE context_variables

\* any("Thank you ..." in msg.get("content", "") for msg in messages):
\* the transcript is scanned in order; a content of None raises TypeError
\* when the scan reaches it.
RECURSIVE SentinelScan(_)
SentinelScan(msgs) ==
    IF msgs = <<>> THEN "False"
    ELSE IF Head(msgs).content = NullContent THEN "TypeError"
    ELSE IF HasSentinel(Head(msgs).content) THEN "True"
    ELSE SentinelScan(Tail(msgs))

----------------------------------------------------------------------------
(* History *)

NoTurn ==
    [turn |-> 0, error |-> None, agent |-> None, terminate |-> FALSE,
     closing |-> NullContent, continue |-> None, outcomes |-> {},
     routed |-> {}, store |-> EmptyContext]

NoCall == [agent |-> None, messages |-> <<>>, context_variables |-> EmptyContext]

Call(agent, msgs, ctx) ==
    [agent |-> agent, messages |-> msgs, context_variables |-> ctx]

\* Mutant: the run is started and not waited for.
RunBegins_async == pc' = "loop"

\* response = self.client.run(...): execute() waits for the run to end.
RunBegins == pc' = "run"

\* self.client.run(agent=active_agent, messages=messages,
\*                 context_variables=context_variables)
Invoke ==
    /\ RunBegins
    /\ calls' = Append(calls, active_agent)
    /\ first' = IF calls = <<>>
                THEN Call(active_agent, messages, context_variables)
                ELSE first

TurnOf(resp) ==
    [turn |-> Len(calls), error |-> None, agent |-> resp.agent,
     terminate |-> resp.terminate, closing |-> resp.closing,
     continue |-> resp.continue, outcomes |-> resp.outcomes,
     routed |-> last.routed \cup resp.routes,
     store |-> Merge(last.store, resp.written)]

FailedTurn(e) ==
    [last EXCEPT !.turn = Len(calls), !.error = e, !.agent = None,
                 !.terminate = FALSE, !.closing = NullContent, !.continue = None,
                 !.outcomes = {}]

----------------------------------------------------------------------------
(* The state after construction *)

\* The paths at which sqlite3.connect makes no regular file: "" opens a
\* temporary database, ":memory:" a database in memory, and a device is no
\* regular file.
NoFilePaths == {"", ":memory:", "/dev/null"}

\* The paths at which os.path.isfile is never true: the empty path and a
\* device. (":memory:" may be the name of a file in the working directory.)
NeverFilePaths == {"", "/dev/null"}

\* The paths whose os.path.dirname is empty, so that os.makedirs is not called.
NoDirPaths == {"", ":memory:"}

UserQueries == {"What courses are available in biology?"}

\* The contexts a tool function may be given.
Contexts == {EmptyContext} \cup UNION {[{k} -> Vals] : k \in Keys}

\* One application of a tool function: the context it was given, the agent
\* or the text it returned, and the context after it returned
\* (for a data query: the agent that issued it and what the gateway did).
NoHandler ==
    [tool |-> None, caller |-> None, given |-> EmptyContext, agent |-> None,
     text |-> NullContent, outcome |-> None, after |-> EmptyContext]

Applied(tool, ctx) ==
    [tool |-> tool, caller |-> None, given |-> ctx, agent |-> CallRoute(tool, ctx),
     text |-> CallFinalise(tool, ctx), outcome |-> None, after |-> ctx]

Queried(agent, tool, reachable, ctx) ==
    [tool |-> tool, caller |-> agent, given |-> ctx, agent |-> None,
     text |-> Gateway(agent, tool, reachable).payload,
     outcome |-> Gateway(agent, tool, reachable).kind, after |-> ctx]

\* create_agents: an agent whose creation fails is logged and left out.
Registries == SUBSET AgentNames

\* SQLITE_DB_PATH: unset, empty, or the path of a file.
Paths == {None, "", "/tmp/university.db"}

\* SQLITE_DB_PATH as the database setup may find it: also a path at which
\* no file is made.
SetupPaths == Paths \cup NoFilePaths

InitAt(paths) ==
    /\ pc = "start"
    /\ sqlite_db_path \in paths
    /\ db_exists \in BOOLEAN
    /\ db_exists => sqlite_db_path \notin {None} \cup NeverFilePaths
    /\ agents \in Registries
    /\ user_query = None
    /\ messages = <<>>
    /\ context_variables = EmptyContext
    /\ active_agent = None
    /\ result = NoResult
    /\ calls = <<>>
    /\ first = NoCall
    /\ last = NoTurn
    /\ handler = NoHandler

Init == InitAt(Paths)

----------------------------------------------------------------------------
(* execute(), step by step *)

\* try: self.validate_env_vars()
ValidateEnv ==
    /\ pc = "start"
    /\ IF EnvMissing
       THEN /\ pc' = "returned"
            /\ result' = Failure(EnvError)
       ELSE /\ pc' = "db"
            /\ UNCHANGED result
    /\ UNCHANGED <<sqlite_db_path, db_exists, agents, user_query, messages,
                   context_variables, active_agent, calls, first, last, handler>>

\* _ensure_database_setup(): how the setup of a missing database may go.
SetupOutcomes ==
    {"ok", "makedirs failed", "connect failed", "sqlite3.Error", "sample data failed"}

SetupOutcomesAt(path) ==
    IF path \in NoDirPaths THEN SetupOutcomes \ {"makedirs failed"} ELSE SetupOutcomes

\* os.path.isfile(path) after the setup: sqlite3.connect creates the file,
\* so it is there once the connection was made, also when a later statement
\* or the sample data fail; at a path of NoFilePaths there is no file
\* whatever the setup did.
FileAfter(path, outcome) ==
    /\ path \notin NoFilePaths
    /\ outcome \notin {"makedirs failed", "connect failed"}

\* What _ensure_database_setup() does in the current state: whether it
\* raises, and os.path.isfile(sqlite_db_path) afterwards.
\* os.path.isfile(None) raises TypeError.
SetupResults ==
    IF sqlite_db_path = None
    THEN {[raised |-> TRUE, exists |-> FALSE]}
    ELSE IF db_exists
    THEN {[raised |-> FALSE, exists |-> TRUE]}
    ELSE {[raised |-> outcome # "ok", exists |-> FileAfter(sqlite_db_path, outcome)] :
            outcome \in SetupOutcomesAt(sqlite_db_path)}

\* self._ensure_database_setup(): outside any try of execute(); what it
\* raises leaves execute().
EnsureDatabaseSetup ==
    /\ pc = "db"
    /\ \E r \in SetupResults :
          /\ pc' = IF r.raised THEN "raised" ELSE "input"
          /\ db_exists' = r.exists
    /\ UNCHANGED <<sqlite_db_path, agents, user_query, messages,
                   context_variables, active_agent, result, calls, first, last, handler>>

\* What input() may do: return the query, raise an Exception (EOFError,
\* OSError), or raise what is not an Exception (KeyboardInterrupt, SystemExit).
InputOutcomes == {"returns", "Exception", "BaseException"}

\* user_query = input(...): "except Exception" catches an Exception only;
\* a KeyboardInterrupt or SystemExit leaves execute().
ReadInput ==
    /\ pc = "input"
    /\ \E outcome \in InputOutcomes :
          CASE outcome = "returns" ->
                  \E q \in UserQueries :
                      /\ user_query' = q
                      /\ pc' = "lookup"
                      /\ UNCHANGED result
            [] outcome = "Exception" ->
                  /\ pc' = "returned"
                  /\ result' = Failure(InputError)
                  /\ UNCHANGED user_query
            [] OTHER ->
                  /\ pc' = "raised"
                  /\ UNCHANGED <<user_query, result>>
    /\ UNCHANGED <<sqlite_db_path, db_exists, agents, messages,
                   context_variables, active_agent, calls, first, last, handler>>

\* The lookup of the TriageAgent and the initialisation of the loop.
StartInteraction ==
    /\ pc = "lookup"
    /\ IF StartingAgent = None
       THEN /\ pc' = "returned"
            /\ result' = Failure(NoTriageError)
            /\ UNCHANGED <<messages, context_variables, active_agent>>
       ELSE /\ pc' = "loop"
            /\ messages' = InitialMessages(user_query)
            /\ context_variables' = EmptyContext
            /\ active_agent' = StartingAgent
            /\ UNCHANGED result
    /\ UNCHANGED <<sqlite_db_path, db_exists, agents, user_query, calls, first, last, handler>>

\* Mutant: the failed run is logged and the loop goes on.
RunRaised_retry(e) ==
    /\ pc' = "loop"
    /\ UNCHANGED <<result, messages, context_variables, active_agent>>

\* except Exception as e: return {"status": "failure", ...}
RunRaised(e) ==
    /\ pc' = "returned"
    /\ result' = Failure(RunError(e))
    /\ UNCHANGED <<messages, context_variables, active_agent>>

\* The body of the loop after a response: append, then hand off or end.
RunReturned(resp) ==
    /\ messages' = Extended(messages, resp)
    /\ IF resp.agent # None
       THEN /\ active_agent' = NextAgent(resp)
            /\ context_variables' = NextContext(resp)
            /\ pc' = "loop"
            /\ UNCHANGED result
       ELSE /\ UNCHANGED <<active_agent, context_variables>>
            /\ IF SentinelScan(Extended(messages, resp)) = "TypeError"
               THEN /\ pc' = "raised"
                    /\ UNCHANGED result
               ELSE /\ pc' = "returned"
                    /\ result' = Success(Extended(messages, resp))

\* One iteration of "while active_agent" begins: the client is run.
Run ==
    /\ pc = "loop"
    /\ active_agent # None
    /\ Len(calls) < MaxTurns
    /\ Invoke
    /\ UNCHANGED <<sqlite_db_path, db_exists, agents, user_query, messages,
                   context_variables, active_agent, result, last, handler>>

\* The run raises.
TurnFails ==
    /\ pc = "run"
    /\ \E e \in ExecutorErrors :
          /\ RunRaised(e)
          /\ last' = FailedTurn(e)
    /\ UNCHANGED <<sqlite_db_path, db_exists, agents, user_query, calls, first, handler>>

\* The run returns a response.
Turn ==
    /\ pc = "run"
    /\ \E said \in Sayings, trs \in TransitionSeqs(active_agent, context_variables),
          rep \in ContextReports :
          \E hint \in Hints(active_agent, trs) :
          LET resp == Response(context_variables, said, trs, hint, rep)
          IN /\ Len(messages) + Len(Appended(resp)) <= MaxMessages
             /\ RunReturned(resp)
             /\ last' = TurnOf(resp)
    /\ UNCHANGED <<sqlite_db_path, db_exists, agents, user_query, calls, first, handler>>

\* How run_demo_loop(starting_agent=...) may end: it returns, raises an
\* Exception, or raises what is not an Exception (KeyboardInterrupt).
DemoOutcomes == {"returns", "Exception", "BaseException"}

\* The positions of interactive_mode(): "demo" while run_demo_loop runs, and
\* the positions it ends in.
InteractivePositions ==
    {"interactive raised", "interactive returned", "demo", "demo returned",
     "demo raised"}

\* interactive_mode() up to the call of run_demo_loop: the database setup
\* without validate_env_vars, then the lookup of the TriageAgent.
InteractiveMode ==
    /\ pc = "start"
    /\ \E r \in SetupResults :
          /\ db_exists' = r.exists
          /\ pc' = IF r.raised THEN "interactive raised"
                   ELSE IF StartingAgent = None THEN "interactive returned"
                   ELSE "demo"
    /\ UNCHANGED <<sqlite_db_path, agents, user_query, messages,
                   context_variables, active_agent, result, calls, first, last, handler>>

\* run_demo_loop ends, inside "except Exception" of interactive_mode().
DemoLoopEnds ==
    /\ pc = "demo"
    /\ \E outcome \in DemoOutcomes :
          pc' = IF outcome = "BaseException" THEN "demo raised" ELSE "demo returned"
    /\ UNCHANGED <<sqlite_db_path, db_exists, agents, user_query, messages,
                   context_variables, active_agent, result, calls, first, last, handler>>

\* The start of execute() and interactive_mode() on their own, with every
\* kind of SQLITE_DB_PATH.
SetupInit == InitAt(SetupPaths)

SetupNext ==
    \/ ValidateEnv
    \/ EnsureDatabaseSetup
    \/ ReadInput
    \/ InteractiveMode
    \/ DemoLoopEnds

SetupSpec == SetupInit /\ [][SetupNext]_vars

\* After the setup a file is missing only at a path where sqlite3.connect
\* makes none, and no file is there at a path that cannot be one.
SetupLeavesFile ==
    pc \in {"input", "demo"} =>
        /\ ~db_exists => sqlite_db_path \in NoFilePaths
        /\ db_exists => sqlite_db_path \notin NeverFilePaths

\* The run is interrupted: "except Exception" does not catch what is no
\* Exception, which leaves execute() from the call; nothing is appended and
\* nothing is returned.
TurnInterrupted ==
    /\ pc = "run"
    /\ \E e \in Interruptions :
          /\ pc' = "raised"
          /\ last' = FailedTurn(e)
    /\ UNCHANGED <<sqlite_db_path, db_exists, agents, user_query, messages,
                   context_variables, active_agent, result, calls, first, handler>>

Next ==
    \/ ValidateEnv
    \/ EnsureDatabaseSetup
    \/ ReadInput
    \/ StartInteraction
    \/ Run
    \/ TurnFails
    \/ TurnInterrupted
    \/ Turn
    \/ InteractiveMode
    \/ DemoLoopEnds

Spec == Init /\ [][Next]_vars

----------------------------------------------------------------------------
(* The conversation with the data queries of the sqlite server: in a turn  *)
(* the agent may issue a data query, which writes nothing to the context.  *)

\* The run returns a response after a data query of the agent.
Query ==
    /\ pc = "run"
    /\ \E said \in Sayings, q \in QueryOutcomes(active_agent), keep \in BOOLEAN :
          \E hint \in Hints(active_agent, <<q>>) :
          LET resp == Response(context_variables, said, <<q>>, hint,
                               [keep |-> keep, w |-> EmptyContext])
          IN /\ Len(messages) + Len(Appended(resp)) <= MaxMessages
             /\ RunReturned(resp)
             /\ last' = TurnOf(resp)
    /\ UNCHANGED <<sqlite_db_path, db_exists, agents, user_query, calls, first, handler>>

QueryNext ==
    \/ Next
    \/ Query

QuerySpec == Init /\ [][QueryNext]_vars

----------------------------------------------------------------------------
(* The tool functions on their own: each is applied to any context, at any *)
(* point of a conversation, with any registry create_agents may leave.     *)

Transcripts ==
    {InitialMessages(q) : q \in UserQueries}
    \cup {InitialMessages(q) \o <<Msg("assistant", Str(CanonicalClosing))>> :
            q \in UserQueries}

HandlerInit ==
    /\ pc = "handler"
    /\ sqlite_db_path = "/tmp/university.db"
    /\ db_exists = TRUE
    /\ agents \in Registries
    /\ user_query \in UserQueries
    /\ messages \in Transcripts
    /\ context_variables \in Contexts
    /\ active_agent = None
    /\ result = NoResult
    /\ calls = <<>>
    /\ first = NoCall
    /\ last = NoTurn
    /\ handler = NoHandler

\* A route function of the TriageAgent is called.
ApplyRoute ==
    /\ pc = "handler"
    /\ \E tool \in RouteTools, ctx \in Contexts :
          /\ handler' = Applied(tool, ctx)
          /\ context_variables' = Applied(tool, ctx).after
    /\ messages' \in Transcripts
    /\ UNCHANGED <<pc, sqlite_db_path, db_exists, agents, user_query, active_agent,
                   result, calls, first, last>>

\* A finalise function of a specialist is called.
ApplyFinalise ==
    /\ pc = "handler"
    /\ \E tool \in FinaliseTools, ctx \in Contexts :
          /\ handler' = Applied(tool, ctx)
          /\ context_variables' = Applied(tool, ctx).after
    /\ messages' \in Transcripts
    /\ UNCHANGED <<pc, sqlite_db_path, db_exists, agents, user_query, active_agent,
                   result, calls, first, last>>

\* A data query of an agent goes through the gateway.
ApplyGateway ==
    /\ pc = "handler"
    /\ \E agent \in AgentNames, tool \in DataTools, reachable \in BOOLEAN :
          handler' = Queried(agent, tool, reachable, context_variables)
    /\ messages' \in Transcripts
    /\ UNCHANGED <<pc, sqlite_db_path, db_exists, agents, user_query, context_variables,
                   active_agent, result, calls, first, last>>

HandlerNext ==
    \/ ApplyRoute
    \/ ApplyFinalise
    \/ ApplyGateway

HandlerSpec == HandlerInit /\ [][HandlerNext]_vars

----------------------------------------------------------------------------
(* The append loop of execute() on its own: any items a run may return,    *)
(* appended to the transcript of a conversation.                           *)

\* What response.messages may hold: messages with a content (a text or
\* None), a dict without a 'content' key, and an item that is not a dict.
ItemKinds ==
    { Msg("assistant", Str(CanonicalClosing)),
      Msg("assistant", NullContent),
      Msg("tool", Str("rows")),
      Item(TRUE, FALSE, "assistant", NullContent),
      Item(FALSE, FALSE, None, NullContent) }

ItemSeqs == UNION {[1..n -> ItemKinds] : n \in 0..MaxItems}

\* The run has returned items; the loop over them has not run yet.
Returned(items) == [tool |-> "append", applied |-> FALSE, before |-> <<>>, items |-> items]

\* The loop over the items has run on the transcript before.
Looped(before, items) ==
    [tool |-> "append", applied |-> TRUE, before |-> before, items |-> items]

AppendInit ==
    /\ pc = "append"
    /\ sqlite_db_path = "/tmp/university.db"
    /\ db_exists = TRUE
    /\ agents = AgentNames
    /\ user_query \in UserQueries
    /\ messages \in Transcripts
    /\ context_variables = EmptyContext
    /\ active_agent = TriageAgent
    /\ result = NoResult
    /\ calls = <<>>
    /\ first = NoCall
    /\ last = NoTurn
    /\ \E items \in ItemSeqs : handler = Returned(items)

\* for message in response.messages: ... messages.append(message)
AppendItems ==
    /\ pc = "append"
    /\ ~handler.applied
    /\ messages' = Extended(messages, [messages |-> handler.items])
    /\ handler' = Looped(messages, handler.items)
    /\ UNCHANGED <<pc, sqlite_db_path, db_exists, agents, user_query, context_variables,
                   active_agent, result, calls, first, last>>

AppendNext ==
    \/ AppendItems

AppendSpec == AppendInit /\ [][AppendNext]_vars

----------------------------------------------------------------------------
(* Properties *)

\* The last run begun has returned a response and the loop body has run.
Completed == last.turn > 0 /\ last.error = None /\ last.turn = Len(calls)
LastMessage == messages[Len(messages)]

\* C1: when a tool invocation of a turn resolves to Terminate, the driver
\* moves to Terminated and stops: it is not left in the loop with an agent
\* to run, whatever agent the executor reports.
C1_TerminateStops ==
    (Completed /\ last.terminate) => pc # "loop"

\* C2: when the executor reports no further agent after a turn, the driver
\* moves to Terminated in that turn and returns, with or without a closing
\* sentinel in the transcript.
C2_NoAgentTerminates ==
    (Completed /\ last.agent = None) => (pc = "returned" /\ result.status = "success")

\* C3: the first executor invocation is made with the TriageAgent, a
\* transcript that holds exactly the user's query as one user message, and
\* an empty context.
C3_StartsAtDispatcher ==
    calls # <<>> =>
        /\ calls[1] = TriageAgent
        /\ first.agent = TriageAgent
        /\ first.messages = <<[isdict |-> TRUE, has_content |-> TRUE, role |-> "user",
                               content |-> <<"str", user_query>>]>>
        /\ first.context_variables = EmptyContext

C3_Witness ==
    /\ Len(calls) = 2
    /\ calls[2] \in Specialists
    /\ pc = "returned"
    /\ result.status = "success"

\* C4: when a session ends through a Terminate transition, the content of
\* the final transcript message is the closing message itself (the canonical
\* closing message, or the haiku), with nothing wrapped around it.
C4_PayloadVerbatim ==
    (Completed /\ last.terminate /\ pc = "returned") =>
        LastMessage.content = last.closing

\* C5: an error raised by the executor ends the session at once: the driver
\* returns a failure whose error carries the cause, and the failed run is
\* the last run of the session.
C5_ExecutorErrorFatal ==
    last.error \in ExecutorErrors =>
        /\ pc = "returned"
        /\ result.status = "failure"
        /\ result.error = <<"Error during interaction: ", last.error>>
        /\ Len(calls) = last.turn

C5_Witness ==
    /\ last.error = "RateLimitError"
    /\ last.turn = 2
    /\ Len(messages) > 1

\* C6: every run of execute() ends by returning a result; no exception
\* leaves execute().
C6_NoExceptionEscapes ==
    pc # "raised"

\* C7: the failure returned after an executor error holds the transcript
\* built so far.
C7_FailureKeepsTranscript ==
    last.error \in ExecutorErrors =>
        (result.has_messages /\ result.messages = messages)

\* C8: after a turn with no Terminate and at least one ContinueWith, the
\* loop goes on and the agent it runs next is the target of the turn's last
\* ContinueWith.
C8_LastContinueWins ==
    (Completed /\ ~last.terminate /\ last.continue # None) =>
        (pc = "loop" /\ active_agent = last.continue)

C8_Witness ==
    /\ Completed
    /\ last.turn = 1
    /\ Cardinality(last.routed) = 2
    /\ last.continue = UniversityPoet
    /\ pc = "loop"
    /\ active_agent = UniversityPoet

\* C9: the agents run are the dispatcher and specialists that a route tool
\* issued by the dispatcher named; once a specialist runs, the active agent
\* does not change any more.
C9_RoutingEdgesOnly ==
    /\ active_agent \in {None, TriageAgent} \cup last.routed
    /\ \A i \in 1..Len(calls) : calls[i] \in {TriageAgent} \cup last.routed
    /\ \A i \in 1..Len(calls) : calls[i] \in Specialists =>
          /\ active_agent = calls[i]
          /\ \A j \in i..Len(calls) : calls[j] = calls[i]

C9_Witness ==
    /\ Len(calls) = 2
    /\ calls[2] = SchedulingAssistant
    /\ Completed
    /\ pc = "loop"
    /\ active_agent = SchedulingAssistant

\* C10: every context key written so far is present, with its last-written
\* value, in the context the next executor invocation receives.
C10_ContextPersists ==
    pc = "loop" =>
        \A k \in DOMAIN last.store :
            /\ k \in DOMAIN context_variables
            /\ context_variables[k] = last.store[k]

\* A key written in the first turn and overwritten in the second.
C10_Witness ==
    /\ pc = "loop"
    /\ Len(calls) = 2
    /\ first.context_variables = EmptyContext
    /\ "response_haiku" \in DOMAIN context_variables
    /\ context_variables["response_haiku"] = "false"
    /\ last.store = context_variables
    /\ last.terminate

\* C11: the transcript only grows at its end: every step leaves the
\* transcript it found as a prefix of the transcript it leaves, so the
\* messages of a turn come before those of every later turn, and the first
\* message is the user's query.
C11_AppendOnly ==
    [][ /\ Len(messages') >= Len(messages)
        /\ SubSeq(messages', 1, Len(messages)) = messages
        /\ messages' # <<>> =>
              /\ messages'[1].role = "user"
              /\ messages'[1].content = <<"str", user_query'>> ]_vars

\* A specialist's finalise payload follows what the first turn appended.
C11_Witness ==
    /\ Completed
    /\ Len(calls) = 2
    /\ calls[2] \in Specialists
    /\ Len(messages) = 3
    /\ messages[1].role = "user"
    /\ messages[2].role = "assistant"
    /\ messages[3].role = "tool"
    /\ messages[3].content[1] = "json"

\* C16: with SQLITE_DB_PATH unset or empty, the run of execute() fails
\* before a session starts: execute() returns a failure that names the
\* variable, the client is never run, no transcript is created, no user
\* input is read and execute() does not attempt the database setup.
C16_EnvMissingFailsFirst ==
    (sqlite_db_path \in {"None", ""} /\ pc \notin InteractivePositions) =>
        /\ pc \in {"start", "returned"}
        /\ pc = "returned" =>
              /\ result.status = "failure"
              /\ result.error = <<"SQLITE_DB_PATH environment variable is required.">>
        /\ calls = <<>>
        /\ first.agent = "None"
        /\ messages = <<>>
        /\ user_query = "None"

C16_Witness ==
    /\ sqlite_db_path = ""
    /\ ~db_exists
    /\ pc = "returned"
    /\ result.status = "failure"

\* C12: what a finalise function returns carries, as its content, the haiku
\* exactly when it is the poet's and response_haiku is "true" in the context
\* it was given, and the canonical closing message in every other case (the
\* poet's with the key absent or of another value, the course advisor's and
\* the scheduling assistant's with any context).
C12_FinalisePayloads ==
    handler.tool \in FinaliseTools =>
        /\ handler.text[1] = "json"
        /\ handler.text[2] =
              IF /\ handler.tool = "_university_poet_finalise"
                 /\ "response_haiku" \in DOMAIN handler.given
                 /\ handler.given["response_haiku"] = "true"
              THEN <<"str", Haiku>>
              ELSE <<"str", CanonicalClosing>>

\* C13: a route function resolves to the specialist its name encodes, an
\* agent and never nothing, whatever the context and the transcript, and
\* leaves the context as it was given.
C13_RouteFixedTarget ==
    handler.tool \in RouteTools =>
        /\ handler.agent = RouteTarget(handler.tool)
        /\ handler.after = handler.given

\* C14: after a turn in which the agent issued a tool that is not among its
\* functions, the session has not ended: the UnauthorizedToolError is a
\* message of the transcript, the active agent is the agent that ran, and
\* the loop goes on with it.
C14_UnauthorizedToolRecoverable ==
    (Completed /\ "Rejected" \in last.outcomes) =>
        /\ pc = "loop"
        /\ result.status = "none"
        /\ active_agent = calls[last.turn]
        /\ \E i \in 2..Len(messages) :
              /\ messages[i].role = "tool"
              /\ messages[i].content = <<"str", "UnauthorizedToolError">>

\* C15: a turn in which a data query found the storage unreachable is not
\* fatal: the failure is a message of the transcript, and the session goes
\* on or has ended, through the loop's fallback, with status success.
C15_StorageFailureNotFatal ==
    (Completed /\ "StorageUnavailable" \in last.outcomes) =>
        /\ \E i \in 2..Len(messages) :
              /\ messages[i].role = "tool"
              /\ messages[i].content = <<"str", "StorageUnavailableError">>
        /\ \/ pc = "loop"
           \/ pc = "returned" /\ result.status = "success"

\* C17: the result of a session that ended in the loop has status success
\* and carries both the whole transcript and the final context.
C17_SuccessCarriesContext ==
    (pc = "returned" /\ calls # <<>> /\ last.error = "None") =>
        /\ result.status = "success"
        /\ result.has_messages
        /\ result.messages = messages
        /\ result.has_context

\* C18: a registry that lacks one of the four canonical agents is fatal at
\* startup: with an agent missing the client is never run, and in no turn
\* does a route function yield nothing in place of an agent.
C18_MissingAgentFatal ==
    /\ agents # {"TriageAgent", "CourseAdvisor", "UniversityPoet", "SchedulingAssistant"} =>
          calls = <<>>
    /\ "NoTarget" \notin last.outcomes

\* C19: a data query reaches the storage only when the agent that issued it
\* was created with the sqlite server, which only the CourseAdvisor and the
\* SchedulingAssistant are; a data query of the TriageAgent or of the
\* UniversityPoet ends with ScopeViolationError and never reaches the storage.
C19_ScopeGuardsStorage ==
    handler.tool \in DataTools =>
        /\ handler.outcome \in {"Rows", "StorageUnavailable"} =>
              handler.caller \in {"CourseAdvisor", "SchedulingAssistant"}
        /\ handler.caller \in {"TriageAgent", "UniversityPoet"} =>
              /\ handler.outcome = "ScopeViolation"
              /\ handler.text = <<"str", "ScopeViolationError">>

C19_Witness ==
    /\ handler.tool = "read_query"
    /\ handler.caller = "UniversityPoet"
    /\ handler.outcome = "ScopeViolation"

\* C20: turns are strictly sequential. At most one run of the client is in
\* flight, and a run begins only in the loop, after the turn before it has
\* been completed with all its tool results; while a run is in flight the
\* transcript, the context and the active agent stay as the last completed
\* turn left them, and the step that completes a turn starts no run.
C20_TurnsSequential ==
    /\ [](/\ Len(calls) \in {last.turn, last.turn + 1}
          /\ (pc = "run") <=> (Len(calls) = last.turn + 1)
          /\ pc = "run" => result.status = "none")
    /\ [][ /\ calls' # calls =>
                /\ pc = "loop"
                /\ Len(calls) = last.turn
                /\ Len(calls') = Len(calls) + 1
                /\ messages' = messages
                /\ context_variables' = context_variables
                /\ active_agent' = active_agent
           /\ last'.turn # last.turn =>
                /\ pc = "run"
                /\ calls' = calls
                /\ last'.turn = Len(calls) ]_vars

\* The second run is in flight after a turn with two tool calls.
C20_Witness ==
    /\ pc = "run"
    /\ Len(calls) = 2
    /\ last.turn = 1
    /\ Cardinality(last.routed) = 2
    /\ active_agent \in Specialists

\* C24: the context a finalise function returns, in either branch of the
\* poet's and for the course advisor's and the scheduling assistant's, is
\* exactly the context it was given, and the context it received is as it
\* was after the call.
C24_FinaliseKeepsContext ==
    handler.tool \in FinaliseTools =>
        /\ handler.text[1] = "json"
        /\ handler.text[3] = handler.given
        /\ handler.after = handler.given

\* The poet's haiku branch.
C24_Witness ==
    /\ handler.tool = "_university_poet_finalise"
    /\ handler.given = [k \in {"response_haiku"} |-> "true"]
    /\ handler.text[2] = <<"str", Haiku>>
    /\ handler.text[3] = handler.given

\* C22: the session context changes only in the step that completes a turn
\* whose response reports a next agent and a context that is not empty, and
\* what it becomes is that context, the one that holds what the turns have
\* written; every other step (a response with an empty or no context, a turn
\* after which no agent is reported, a run that raises, and every step
\* outside the loop) leaves it as it was.
C22_ContextOnlyReplaced ==
    [][ context_variables' # context_variables =>
            /\ pc = "run"
            /\ pc' = "loop"
            /\ last'.turn = Len(calls)
            /\ last'.error = "None"
            /\ last'.agent # "None"
            /\ context_variables' # << >>
            /\ context_variables' = last'.store ]_vars

\* After the second turn the session context is what the turns have written.
C22_Witness ==
    /\ Completed
    /\ last.turn = 2
    /\ pc = "loop"
    /\ first.context_variables = EmptyContext
    /\ last.store = [k \in {"response_haiku"} |-> "false"]
    /\ context_variables = last.store
    /\ last.agent = calls[2]
    /\ ~last.terminate

\* C23: after a run that returned, the transcript is the transcript before
\* followed by exactly the returned items that are dicts with a 'content'
\* key, each once and in the order returned; an item that is not a dict or
\* has no 'content' key is not in what was appended.
C23_AppendsContentItems ==
    handler.applied =>
        LET before == handler.before
            items == handler.items
            new == SubSeq(messages, Len(before) + 1, Len(messages))
        IN /\ Len(messages) >= Len(before)
           /\ SubSeq(messages, 1, Len(before)) = before
           /\ \A i \in 1..Len(new) : new[i].isdict /\ new[i].has_content
           /\ Len(new) = Cardinality({i \in 1..Len(items) :
                                         items[i].isdict /\ items[i].has_content})
           /\ \E f \in [1..Len(new) -> 1..Len(items)] :
                 /\ \A i, j \in 1..Len(new) : i < j => f[i] < f[j]
                 /\ \A i \in 1..Len(new) : new[i] = items[f[i]]

\* Of three items, the one message between an item that is not a dict and a
\* dict without content is appended.
C23_Witness ==
    /\ handler.applied
    /\ Len(handler.items) = 3
    /\ ~handler.items[1].isdict
    /\ handler.items[2].isdict /\ handler.items[2].has_content
    /\ handler.items[2].content = <<"null">>
    /\ handler.items[3].isdict /\ ~handler.items[3].has_content
    /\ Len(messages) = Len(handler.before) + 1
    /\ messages[Len(messages)] = handler.items[2]

====
